---- MODULE Spec2Model ----
(***************************************************************************)
(* A model of glium's vertex buffer (src/src/vertex/buffer.rs):            *)
(* VertexBuffer<T>, VertexBufferSlice, VertexBufferAny and                 *)
(* VertexBufferAnySlice over the raw Buffer of the crate's buffer module.  *)
(* The raw Buffer, the capability context and the Vertex trait are not     *)
(* part of the sources at hand; they are modelled from the specification. *)
(***************************************************************************)
EXTENDS Integers, Sequences, FiniteSets, TLC

(*************************** bounds of the model ***************************)
\* Width of the machine word (usize) in bits.
WordBits == 3
\* Largest number of elements of a buffer or of a data vector.
MaxLen == 2
\* The round-trip counter saturates here.
MaxTrips == 2
\* Most Senders and pending fences of the buffer at once.
MaxFences == 2

WordMod == 2 ^ WordBits
\* isize::MAX: a Vec<T> holds at most this many bytes, so at most this many
\* elements of a T of one byte or more. A Vec of a zero-sized T holds up to
\* usize::MAX elements.
IsizeMax == (2 ^ (WordBits - 1)) - 1
Min(a, b) == IF a < b THEN a ELSE b

\* The word values the model tries as slice arguments: around the buffer and
\* at the top of the word.
SliceArgs == (0 .. (MaxLen + 1)) \cup {WordMod - 2, WordMod - 1}

\* Option<T>
None == << >>
Some(x) == << x >>
IsSome(o) == o # None

(************************ the capability context ***************************)
Versions == {<<2, 1>>, <<3, 2>>, <<3, 3>>, <<4, 0>>}
Contexts == [version : Versions, instanced : BOOLEAN,
             persistent : BOOLEAN, readback : BOOLEAN]

\* Version's ordering: by major, then by minor.
VersionLt(a, b) == a[1] < b[1] \/ (a[1] = b[1] /\ a[2] < b[2])

(**************************** the Vertex trait *****************************)
VertexTypes == {"PosTex", "Pos"}

\* <T as Vertex>::build_bindings()
build_bindings(T) ==
    IF T = "PosTex"
    THEN << [name |-> "position", offset |-> 0, ty |-> "F32F32F32"],
            [name |-> "texcoords", offset |-> 12, ty |-> "F32F32"] >>
    ELSE << [name |-> "position", offset |-> 0, ty |-> "F32F32F32"] >>

\* The element types: the vertex types and a zero-sized type, which is
\* Send + Copy + 'static as slice, read and write ask.
ElementTypes == VertexTypes \cup {"Z"}

\* mem::size_of::<T>()
size_of(T) == CASE T = "PosTex" -> 20 [] T = "Pos" -> 12 [] OTHER -> 0

\* The values of an element of T that the model tells apart.
ElemsOf(T) == IF size_of(T) = 0 THEN {0} ELSE {1, 2}

\* The lengths of the vectors of T that the model tries.
LensOf(T) ==
    IF size_of(T) = 0 THEN {0, 1, WordMod - 1} ELSE 0 .. Min(MaxLen, IsizeMax)

\* The vectors of T (data: Vec<T>) that the model tries.
DataOf(T) == UNION {[1 .. k -> ElemsOf(T)] : k \in LensOf(T)}

AllData == UNION {DataOf(T) : T \in ElementTypes}

\* The layouts new_raw is given: bindings and an element size of the
\* caller's choice.
RawLayouts ==
    { [bindings |-> << >>, elements_size |-> 0],
      [bindings |-> << [name |-> "x", offset |-> 4, ty |-> "F32"] >>,
       elements_size |-> 7] }

(****************************** the raw Buffer *****************************)
BufferFlagsSimple == [persistent |-> FALSE]
BufferFlagsPersistent == [persistent |-> TRUE]

\* What Buffer::new can answer for these flags on this context.
BufferNewOutcomes(c, flags) ==
    IF flags.persistent /\ ~c.persistent
    THEN {"PersistentMappingNotSupported"}
    ELSE {"Ok", "OutOfMemory"}

\* The Buffer that Buffer::new(facade, &data, ArrayBuffer, flags) builds.
BufferNew(T, data, flags) ==
    [id |-> 1, data |-> data, elements_size |-> size_of(T),
     persistent |-> flags.persistent, flags |-> flags]

NoRawBuffer ==
    [id |-> 0, data |-> << >>, elements_size |-> 0,
     persistent |-> FALSE, flags |-> BufferFlagsSimple]

\* Buffer::get_elements_count
get_elements_count(b) == Len(b.data)

\* Buffer::upload(offset, data): whether the region lies in the buffer.
UploadFits(b, offset, data) == offset + Len(data) <= Len(b.data)

\* Buffer::upload(offset, data): the contents afterwards.
Uploaded(b, offset, data) ==
    [b EXCEPT !.data = [i \in 1 .. Len(b.data) |->
        IF i > offset /\ i <= offset + Len(data) THEN data[i - offset]
        ELSE b.data[i]]]

\* Buffer::read_slice(offset, len): whether the region lies in the buffer.
ReadFits(b, offset, len) == offset + len <= Len(b.data)

\* Buffer::read_slice(offset, len)
ReadSlice(b, offset, len) == [i \in 1 .. len |-> b.data[offset + i]]

VARIABLES
    ctx,      \* the capability context of the facade
    vb,       \* the vertex buffer: [buffer, bindings, elements_size, marker]
    orig,     \* len, bindings, elements_size and id of vb when it was built
    trips,    \* completed into_vertex_buffer_any / into_vertex_buffer round trips
    sl,       \* the VertexBufferSlice held by the caller, if any
    senders,  \* Senders that add_fence handed out and that are still unused
    fences,   \* regions of the fences sent that have not signalled yet
    pc,       \* "start", "ready", "map_wait", "mapped" or "panicked"
    mapping,  \* the region being mapped, if any
    ret,      \* the last call: [op, arg, val, alloc, flags]
    last_write \* the last upload that succeeded: [via, offset, data]

vars ==
    << ctx, vb, orig, trips, sl, senders, fences, pc, mapping, ret, last_write >>

NoBuffer ==
    [buffer |-> NoRawBuffer, bindings |-> << >>, elements_size |-> 0,
     marker |-> "none"]

Ret(op, arg, val) ==
    [op |-> op, arg |-> arg, val |-> val, alloc |-> "none",
     flags |-> BufferFlagsSimple]

RetNew(op, arg, val, alloc, flags) ==
    [op |-> op, arg |-> arg, val |-> val, alloc |-> alloc, flags |-> flags]

\* VertexBuffer::len / VertexBufferAny::len
len(v) == get_elements_count(v.buffer)

\* VertexBuffer::get_elements_size / VertexBufferAny::get_elements_size
get_elements_size(v) == v.elements_size

\* VertexBuffer::get_bindings / VertexBufferAny::get_bindings
get_bindings(v) == v.bindings

\* GlObject::get_id
get_id(v) == v.buffer.id

Origin(v) ==
    [len |-> len(v), bindings |-> get_bindings(v),
     elements_size |-> get_elements_size(v), id |-> get_id(v)]

InitWith(cs) ==
    /\ ctx \in cs
    /\ vb = NoBuffer
    /\ orig = Origin(NoBuffer)
    /\ trips = 0
    /\ sl = None
    /\ senders = 0
    /\ fences = {}
    /\ pc = "start"
    /\ mapping = None
    /\ ret = Ret("init", << >>, None)
    /\ last_write = None

(****************************** constructors *******************************)
\* The VertexBuffer { buffer: VertexBufferAny { .. }, marker: PhantomData }
\* that the constructors build around a raw buffer.
Wrap(T, buffer) ==
    [buffer |-> buffer, bindings |-> build_bindings(T),
     elements_size |-> buffer.elements_size, marker |-> T]

\* VertexBuffer::new
New(T, data) ==
    /\ pc = "start"
    /\ data \in DataOf(T)
    /\ \E a \in BufferNewOutcomes(ctx, BufferFlagsSimple) :
        IF a = "Ok"
        THEN /\ vb' = Wrap(T, BufferNew(T, data, BufferFlagsSimple))
             /\ orig' = Origin(vb')
             /\ pc' = "ready"
             /\ ret' = RetNew("new", << T, data >>, Some(vb'), a, BufferFlagsSimple)
        ELSE /\ pc' = "panicked"
             /\ ret' = RetNew("new", << T, data >>, None, a, BufferFlagsSimple)
             /\ UNCHANGED << vb, orig >>
    /\ UNCHANGED << ctx, trips, sl, senders, fences, mapping, last_write >>

\* VertexBuffer::new_dynamic
NewDynamic(T, data) ==
    /\ pc = "start"
    /\ data \in DataOf(T)
    /\ \E a \in BufferNewOutcomes(ctx, BufferFlagsSimple) :
        IF a = "Ok"
        THEN /\ vb' = Wrap(T, BufferNew(T, data, BufferFlagsSimple))
             /\ orig' = Origin(vb')
             /\ pc' = "ready"
             /\ ret' = RetNew("new_dynamic", << T, data >>, Some(vb'), a,
                              BufferFlagsSimple)
        ELSE /\ pc' = "panicked"
             /\ ret' = RetNew("new_dynamic", << T, data >>, None, a,
                              BufferFlagsSimple)
             /\ UNCHANGED << vb, orig >>
    /\ UNCHANGED << ctx, trips, sl, senders, fences, mapping, last_write >>

\* new_persistent_if_supported unwrapping every error, as new_persistent does.
NewPersistentUnwrapsAll(T, data) ==
    /\ pc = "start"
    /\ data \in DataOf(T)
    /\ \E a \in BufferNewOutcomes(ctx, BufferFlagsPersistent) :
        LET r(val) == RetNew("new_persistent_if_supported", << T, data >>,
                             val, a, BufferFlagsPersistent)
        IN  IF a = "Ok"
            THEN /\ vb' = Wrap(T, BufferNew(T, data, BufferFlagsPersistent))
                 /\ orig' = Origin(vb')
                 /\ pc' = "ready"
                 /\ ret' = r(Some(vb'))
            ELSE /\ pc' = "panicked"
                 /\ ret' = r(None)
                 /\ UNCHANGED << vb, orig >>
    /\ UNCHANGED << ctx, trips, sl, senders, fences, mapping, last_write >>

\* VertexBuffer::new_persistent_if_supported
NewPersistentIfSupported(T, data) ==
    /\ pc = "start"
    /\ data \in DataOf(T)
    /\ \E a \in BufferNewOutcomes(ctx, BufferFlagsPersistent) :
        LET r(val) == RetNew("new_persistent_if_supported", << T, data >>,
                             val, a, BufferFlagsPersistent)
        IN  CASE a = "PersistentMappingNotSupported" ->
                   /\ ret' = r(None)
                   /\ UNCHANGED << vb, orig, pc >>
              [] a = "Ok" ->
                   /\ vb' = Wrap(T, BufferNew(T, data, BufferFlagsPersistent))
                   /\ orig' = Origin(vb')
                   /\ pc' = "ready"
                   /\ ret' = r(Some(vb'))
              [] OTHER ->
                   /\ pc' = "panicked"
                   /\ ret' = r(None)
                   /\ UNCHANGED << vb, orig >>
    /\ UNCHANGED << ctx, trips, sl, senders, fences, mapping, last_write >>

\* VertexBuffer::new_persistent (feature gl_persistent_mapping):
\* new_persistent_if_supported(..).unwrap()
NewPersistent(T, data) ==
    /\ pc = "start"
    /\ data \in DataOf(T)
    /\ \E a \in BufferNewOutcomes(ctx, BufferFlagsPersistent) :
        LET r(val) == RetNew("new_persistent", << T, data >>, val, a,
                             BufferFlagsPersistent)
        IN  IF a = "Ok"
            THEN /\ vb' = Wrap(T, BufferNew(T, data, BufferFlagsPersistent))
                 /\ orig' = Origin(vb')
                 /\ pc' = "ready"
                 /\ ret' = r(Some(vb'))
            ELSE /\ pc' = "panicked"
                 /\ ret' = r(None)
                 /\ UNCHANGED << vb, orig >>
    /\ UNCHANGED << ctx, trips, sl, senders, fences, mapping, last_write >>

\* VertexBuffer::new_raw: the bindings and the element size are the caller's.
NewRaw(T, data, bindings, elements_size) ==
    /\ pc = "start"
    /\ data \in DataOf(T)
    /\ \E a \in BufferNewOutcomes(ctx, BufferFlagsSimple) :
        LET r(val) == RetNew("new_raw", << T, data, bindings, elements_size >>,
                             val, a, BufferFlagsSimple)
        IN  IF a = "Ok"
            THEN /\ vb' = [buffer |-> BufferNew(T, data, BufferFlagsSimple),
                           bindings |-> bindings,
                           elements_size |-> elements_size,
                           marker |-> T]
                 /\ orig' = Origin(vb')
                 /\ pc' = "ready"
                 /\ ret' = r(Some(vb'))
            ELSE /\ pc' = "panicked"
                 /\ ret' = r(None)
                 /\ UNCHANGED << vb, orig >>
    /\ UNCHANGED << ctx, trips, sl, senders, fences, mapping, last_write >>

(************************** the typed vertex buffer ************************)
\* usize addition as the release build computes it.
WrapAdd(a, b) == (a + b) % WordMod

\* usize addition overflows: the debug build panics there.
Overflows(a, b) == a + b >= WordMod

\* VertexBuffer::slice on a buffer of n elements, the sum computed by wrapping.
SliceChecked(n, offset, length) ==
    IF offset > n \/ WrapAdd(offset, length) > n
    THEN None
    ELSE Some([offset |-> offset, length |-> length])

\* VertexBuffer::slice: every outcome a build can produce. The sum is only
\* computed when offset > n is false.
SliceOutcomes(n, offset, length) ==
    IF offset <= n /\ Overflows(offset, length)
    THEN {"panic", "wrap"}
    ELSE {"exact"}

\* VertexBuffer::slice
Slice(offset, length) ==
    /\ pc = "ready"
    /\ vb.marker \in ElementTypes
    /\ \E o \in SliceOutcomes(len(vb), offset, length) :
        IF o = "panic"
        THEN /\ pc' = "panicked"
             /\ ret' = Ret("slice", << offset, length >>, None)
             /\ UNCHANGED sl
        ELSE /\ sl' = SliceChecked(len(vb), offset, length)
             /\ ret' = Ret("slice", << offset, length >>, sl')
             /\ UNCHANGED pc
    /\ UNCHANGED << ctx, vb, orig, trips, senders, fences, mapping, last_write >>

\* Two element regions <<offset, len>> share an element.
Overlap(r, s) ==
    /\ r[2] > 0
    /\ s[2] > 0
    /\ r[1] < s[1] + s[2]
    /\ s[1] < r[1] + r[2]

\* No fence is pending on the region: a read of it does not have to wait.
Idle(region) == \A f \in fences : ~Overlap(f, region)

\* VertexBuffer::read_if_supported
ReadIfSupported ==
    /\ pc = "ready"
    /\ vb.marker \in ElementTypes
    /\ Idle(<< 0, len(vb) >>)
    /\ ret' = Ret("read_if_supported", << >>,
                  IF ctx.readback THEN Some(vb.buffer.data) ELSE None)
    /\ UNCHANGED << ctx, vb, orig, trips, sl, senders, fences, pc, mapping, last_write >>

\* write without its assertion, cutting or keeping the data to fit.
WriteTruncating(data) ==
    /\ pc = "ready"
    /\ vb.marker \in ElementTypes
    /\ data \in DataOf(vb.marker)
    /\ ret' = Ret("write", << data >>, None)
    /\ LET fit == SubSeq(data, 1, Min(Len(data), len(vb)))
       IN  /\ vb' = [vb EXCEPT !.buffer = Uploaded(vb.buffer, 0, fit)]
           /\ last_write' = Some([via |-> "write", offset |-> 0, data |-> fit])
    /\ UNCHANGED << ctx, orig, trips, sl, senders, fences, mapping, pc >>

\* write that checks the length and never uploads.
WriteWithoutUpload(data) ==
    /\ pc = "ready"
    /\ vb.marker \in ElementTypes
    /\ data \in DataOf(vb.marker)
    /\ ret' = Ret("write", << data >>, None)
    /\ IF Len(data) = len(vb)
       THEN /\ last_write' = Some([via |-> "write", offset |-> 0, data |-> data])
            /\ UNCHANGED pc
       ELSE /\ pc' = "panicked"
            /\ UNCHANGED last_write
    /\ UNCHANGED << ctx, vb, orig, trips, sl, senders, fences, mapping >>

\* VertexBuffer::write
Write(data) ==
    /\ pc = "ready"
    /\ vb.marker \in ElementTypes
    /\ data \in DataOf(vb.marker)
    /\ ret' = Ret("write", << data >>, None)
    /\ IF Len(data) = len(vb) /\ UploadFits(vb.buffer, 0, data)
       THEN /\ vb' = [vb EXCEPT !.buffer = Uploaded(vb.buffer, 0, data)]
            /\ last_write' = Some([via |-> "write", offset |-> 0, data |-> data])
            /\ UNCHANGED pc
       ELSE /\ pc' = "panicked"
            /\ UNCHANGED << vb, last_write >>
    /\ UNCHANGED << ctx, orig, trips, sl, senders, fences, mapping >>

(******************************* typed slices ******************************)
\* VertexBufferSlice::read_if_supported
SliceReadIfSupported ==
    /\ pc = "ready"
    /\ IsSome(sl)
    /\ Idle(<< sl[1].offset, sl[1].length >>)
    /\ ret' = Ret("slice_read_if_supported", << sl[1].offset, sl[1].length >>,
                  IF ctx.readback /\ ReadFits(vb.buffer, sl[1].offset, sl[1].length)
                  THEN Some(ReadSlice(vb.buffer, sl[1].offset, sl[1].length))
                  ELSE None)
    /\ pc' = IF ctx.readback /\ ~ReadFits(vb.buffer, sl[1].offset, sl[1].length)
             THEN "panicked" ELSE pc
    /\ UNCHANGED << ctx, vb, orig, trips, sl, senders, fences, mapping, last_write >>

\* VertexBufferSlice::write
SliceWrite(data) ==
    /\ pc = "ready"
    /\ IsSome(sl)
    /\ data \in DataOf(vb.marker)
    /\ ret' = Ret("slice_write", << sl[1].offset, sl[1].length, data >>, None)
    /\ IF Len(data) = sl[1].length /\ UploadFits(vb.buffer, sl[1].offset, data)
       THEN /\ vb' = [vb EXCEPT !.buffer = Uploaded(vb.buffer, sl[1].offset, data)]
            /\ last_write' = Some([via |-> "slice_write", offset |-> sl[1].offset,
                                   data |-> data])
            /\ UNCHANGED pc
       ELSE /\ pc' = "panicked"
            /\ UNCHANGED << vb, last_write >>
    /\ UNCHANGED << ctx, orig, trips, sl, senders, fences, mapping >>

(************************ the type-erased buffer ***************************)
\* into_vertex_buffer_any handing out a copy of the storage.
IntoVertexBufferAnyCopy ==
    /\ pc = "ready"
    /\ vb.marker \in ElementTypes
    /\ vb' = [vb EXCEPT !.marker = "erased", !.buffer.id = @ + 1]
    /\ sl' = None
    /\ ret' = Ret("into_vertex_buffer_any", << >>, None)
    /\ UNCHANGED << ctx, orig, trips, senders, fences, pc, mapping, last_write >>

\* VertexBuffer::into_vertex_buffer_any
IntoVertexBufferAny ==
    /\ pc = "ready"
    /\ vb.marker \in ElementTypes
    /\ vb' = [vb EXCEPT !.marker = "erased"]
    /\ sl' = None
    /\ ret' = Ret("into_vertex_buffer_any", << >>, None)
    /\ UNCHANGED << ctx, orig, trips, senders, fences, pc, mapping, last_write >>

\* VertexBufferAny::into_vertex_buffer::<T>
IntoVertexBuffer(T) ==
    /\ pc = "ready"
    /\ vb.marker = "erased"
    /\ vb' = [vb EXCEPT !.marker = T]
    /\ trips' = Min(trips + 1, MaxTrips)
    /\ ret' = Ret("into_vertex_buffer", << T >>, None)
    /\ UNCHANGED << ctx, orig, sl, senders, fences, pc, mapping, last_write >>

\* VertexBufferAny::slice on a buffer of n elements, the sum computed by
\* wrapping.
AnySliceChecked(n, offset, length) ==
    IF offset >= n \/ WrapAdd(offset, length) >= n
    THEN None
    ELSE Some([offset |-> offset, length |-> length])

\* VertexBufferAny::slice: every outcome a build can produce. The sum is only
\* computed when offset >= n is false.
AnySliceOutcomes(n, offset, length) ==
    IF offset < n /\ Overflows(offset, length)
    THEN {"panic", "wrap"}
    ELSE {"exact"}

\* VertexBufferAny::slice
AnySlice(offset, length) ==
    /\ pc = "ready"
    /\ vb.marker = "erased"
    /\ \E o \in AnySliceOutcomes(len(vb), offset, length) :
        IF o = "panic"
        THEN /\ pc' = "panicked"
             /\ ret' = Ret("any_slice", << offset, length >>, None)
        ELSE /\ ret' = Ret("any_slice", << offset, length >>,
                           AnySliceChecked(len(vb), offset, length))
             /\ UNCHANGED pc
    /\ UNCHANGED << ctx, vb, orig, trips, sl, senders, fences, mapping, last_write >>

\* The marker refused when either the version or the extension is missing.
PerInstanceMarkerEither(c, v) ==
    IF VersionLt(c.version, << 3, 3 >>) \/ ~c.instanced
    THEN None
    ELSE Some([offset |-> 0, length |-> len(v)])

\* The marker of VertexBuffer::per_instance_if_supported.
PerInstanceMarker(c, v) ==
    IF VersionLt(c.version, << 3, 3 >>) /\ ~c.instanced
    THEN None
    ELSE Some([offset |-> 0, length |-> len(v)])

\* VertexBuffer::per_instance_if_supported
PerInstanceIfSupported ==
    /\ pc = "ready"
    /\ vb.marker \in ElementTypes
    /\ ret' = Ret("per_instance_if_supported", << >>, PerInstanceMarker(ctx, vb))
    /\ UNCHANGED << ctx, vb, orig, trips, sl, senders, fences, pc, mapping, last_write >>

(***************************** fences and maps *****************************)
\* Buffer::add_fence: the Sender it hands out; it takes no region.
BufferAddFence == Some("Sender")

\* BufferExt::add_fence for VertexBuffer
AddFence ==
    /\ pc = "ready"
    /\ vb.marker \in ElementTypes
    /\ senders + Cardinality(fences) < MaxFences
    /\ senders' = senders + 1
    /\ ret' = Ret("add_fence", << >>, BufferAddFence)
    /\ UNCHANGED << ctx, vb, orig, trips, sl, fences, pc, mapping, last_write >>

\* BufferExt::add_fence for VertexBufferSlice
SliceAddFence ==
    /\ pc = "ready"
    /\ IsSome(sl)
    /\ senders + Cardinality(fences) < MaxFences
    /\ senders' = senders + 1
    /\ ret' = Ret("slice_add_fence", << >>, BufferAddFence)
    /\ UNCHANGED << ctx, vb, orig, trips, sl, fences, pc, mapping, last_write >>

\* BufferExt::add_fence for VertexBufferAny
AnyAddFence ==
    /\ pc = "ready"
    /\ vb.marker = "erased"
    /\ senders + Cardinality(fences) < MaxFences
    /\ senders' = senders + 1
    /\ ret' = Ret("any_add_fence", << >>, BufferAddFence)
    /\ UNCHANGED << ctx, vb, orig, trips, sl, fences, pc, mapping, last_write >>

\* The element regions <<offset, len>> of a buffer of n elements that hold
\* an element: a command that touches no element of the buffer leaves no
\* fence on it.
Regions(n) ==
    {r \in (0 .. n) \X (1 .. n) : r[1] + r[2] <= n}

\* The holder of a Sender sends the fence of its command, which covers the
\* region the command touches: the fence is pending from now on. The thread
\* is not inside a call then.
FenceSend(region) ==
    /\ senders > 0
    /\ pc \in {"ready", "mapped"}
    /\ region \in Regions(len(vb))
    /\ region \notin fences
    /\ senders' = senders - 1
    /\ fences' = fences \cup {region}
    /\ UNCHANGED << ctx, vb, orig, trips, sl, pc, mapping, ret, last_write >>

\* The holder of a Sender drops it without sending: no fence becomes pending.
SenderDrop ==
    /\ senders > 0
    /\ pc \in {"ready", "mapped"}
    /\ senders' = senders - 1
    /\ UNCHANGED << ctx, vb, orig, trips, sl, fences, pc, mapping, ret, last_write >>

\* The GPU finishes the commands a fence stands for.
FenceSignal(region) ==
    /\ region \in fences
    /\ pc # "panicked"
    /\ fences' = fences \ {region}
    /\ UNCHANGED << ctx, vb, orig, trips, sl, senders, pc, mapping, ret, last_write >>

\* The arguments of Buffer::map in the other order.
MapRangeSwapped(v) == << get_elements_count(v.buffer), 0 >>

\* The region VertexBuffer::map hands to Buffer::map.
MapRange(v) == << 0, get_elements_count(v.buffer) >>

\* VertexBuffer::map: the call, which then waits in Buffer::map.
Map ==
    /\ pc = "ready"
    /\ vb.marker \in ElementTypes
    /\ pc' = "map_wait"
    /\ mapping' = Some(MapRange(vb))
    /\ sl' = None
    /\ ret' = Ret("map", MapRange(vb), None)
    /\ UNCHANGED << ctx, vb, orig, trips, senders, fences, last_write >>

\* Buffer::map(offset, len) on a part of the buffer.
BufferMap(region) ==
    /\ pc = "ready"
    /\ vb.marker \in ElementTypes
    /\ pc' = "map_wait"
    /\ mapping' = Some(region)
    /\ sl' = None
    /\ ret' = Ret("buffer_map", region, None)
    /\ UNCHANGED << ctx, vb, orig, trips, senders, fences, last_write >>

\* Buffer::map returns the mapping once no fence on its region is pending.
MapReturn ==
    /\ pc = "map_wait"
    /\ Idle(mapping[1])
    /\ pc' = "mapped"
    /\ ret' = [ret EXCEPT !.val = Some(ReadSlice(vb.buffer, mapping[1][1],
                                                 mapping[1][2]))]
    /\ UNCHANGED << ctx, vb, orig, trips, sl, senders, fences, mapping, last_write >>

\* DerefMut for Mapping: the caller stores v in element i of the mapping.
MapStore(i, v) ==
    /\ pc = "mapped"
    /\ i \in 1 .. mapping[1][2]
    /\ v \in ElemsOf(vb.marker)
    /\ vb' = [vb EXCEPT !.buffer.data[mapping[1][1] + i] = v]
    /\ last_write' = None
    /\ ret' = Ret("map_store", << i, v >>, None)
    /\ UNCHANGED << ctx, orig, trips, sl, senders, fences, pc, mapping >>

\* The Mapping is dropped.
Unmap ==
    /\ pc = "mapped"
    /\ pc' = "ready"
    /\ mapping' = None
    /\ ret' = Ret("unmap", << >>, None)
    /\ UNCHANGED << ctx, vb, orig, trips, sl, senders, fences, last_write >>

(****************************** specifications *****************************)
\* Contexts that differ in what the constructors and the reads ask of them.
DataContexts == {c \in Contexts : c.version = << 3, 3 >> /\ c.instanced}

Init == InitWith(DataContexts)

\* Constructors and whole-buffer reads and writes.
Next ==
    \/ \E T \in VertexTypes, data \in AllData : New(T, data)
    \/ \E T \in VertexTypes, data \in AllData : NewDynamic(T, data)
    \/ \E T \in VertexTypes, data \in AllData : NewPersistentIfSupported(T, data)
    \/ \E T \in VertexTypes, data \in AllData : NewPersistent(T, data)
    \/ \E T \in ElementTypes, data \in AllData, l \in RawLayouts :
            NewRaw(T, data, l.bindings, l.elements_size)
    \/ \E data \in AllData : Write(data)
    \/ ReadIfSupported

Spec == Init /\ [][Next]_vars

\* Typed buffers, of a vertex type and of a zero-sized type, their slices,
\* and reads and writes through both.
NextSlice ==
    \/ \E data \in AllData : New("PosTex", data)
    \/ \E data \in {d \in AllData : Len(d) <= 1} : NewRaw("Z", data, << >>, 0)
    \/ \E offset \in SliceArgs, length \in SliceArgs : Slice(offset, length)
    \/ \E data \in AllData : Write(data)
    \/ \E data \in AllData : SliceWrite(data)
    \/ SliceReadIfSupported

SpecSlice == Init /\ [][NextSlice]_vars

\* Contexts that differ in what instancing asks of them.
AnyContexts == {c \in Contexts : ~c.persistent /\ c.readback}

InitAny == InitWith(AnyContexts)

\* Degrading, reinterpreting, type-erased slices and instancing markers.
NextAny ==
    \/ \E T \in VertexTypes, data \in AllData : New(T, data)
    \/ \E T \in ElementTypes, data \in AllData, l \in RawLayouts :
            NewRaw(T, data, l.bindings, l.elements_size)
    \/ IntoVertexBufferAny
    \/ \E T \in ElementTypes : IntoVertexBuffer(T)
    \/ \E offset \in SliceArgs, length \in SliceArgs : AnySlice(offset, length)
    \/ PerInstanceIfSupported

SpecAny == InitAny /\ [][NextAny]_vars

FenceContexts == {c \in DataContexts : ~c.persistent /\ c.readback}

InitFence == InitWith(FenceContexts)

\* Fences of the command layer against maps of the buffer.
NextFence ==
    \/ \E data \in AllData : New("PosTex", data)
    \/ \E length \in 0 .. 1 : Slice(0, length)
    \/ IntoVertexBufferAny
    \/ AddFence
    \/ SliceAddFence
    \/ AnyAddFence
    \/ \E region \in Regions(len(vb)) : FenceSend(region)
    \/ SenderDrop
    \/ \E region \in fences : FenceSignal(region)
    \/ Map
    \/ \E region \in Regions(len(vb)) : BufferMap(region)
    \/ MapReturn
    \/ \E i \in 1 .. MaxLen, v \in ElemsOf("PosTex") : MapStore(i, v)
    \/ Unmap
    \/ ReadIfSupported

\* A waiting map returns when it can: the wait of Buffer::map ends when the
\* fences it waits on have signalled.
SpecFence == InitFence /\ [][NextFence]_vars /\ WF_vars(MapReturn)

(********************************* claims **********************************)
\* C1: for every buffer length n and every (offset, len), slice returns the
\* view with exactly these arguments when offset + len <= n, and None, never
\* a panic, when offset + len > n, the sum being the mathematical one.
C1_SliceBoundsContract ==
    ret.op = "slice" =>
        /\ pc # "panicked"
        /\ (ret.arg[1] + ret.arg[2] <= len(vb)
                => ret.val = Some([offset |-> ret.arg[1], length |-> ret.arg[2]]))
        /\ (ret.arg[1] + ret.arg[2] > len(vb) => ret.val = None)

\* C2: VertexBufferAny::slice returns a view, with the offset and length
\* asked for, exactly when VertexBuffer::slice does on the same storage and
\* arguments, slices that end at the end of the buffer included.
C2_AnySliceAgreesWithTyped ==
    (ret.op = "any_slice" /\ pc # "panicked") =>
        ret.val = SliceChecked(len(vb), ret.arg[1], ret.arg[2])

\* C3: a write, through the buffer or through a slice, of data whose length
\* differs from the buffer's (the slice's) panics and leaves the buffer as it
\* was: nothing is uploaded, cut or padded.
C3_WriteLengthMismatchPanics ==
    [][ /\ (ret'.op = "write" /\ Len(ret'.arg[1]) # len(vb))
            => (pc' = "panicked" /\ vb' = vb)
        /\ (ret'.op = "slice_write" /\ Len(ret'.arg[3]) # ret'.arg[2])
            => (pc' = "panicked" /\ vb' = vb) ]_vars

C3_Witness ==
    /\ ret.op = "write"
    /\ Len(ret.arg[1]) > len(vb)
    /\ len(vb) > 0
    /\ pc = "panicked"

\* C4: a write of S, as long as the buffer, succeeds and stores S; a
\* read_if_supported after it, with no write in between, returns S when
\* read-back is supported, and None, without failing, when it is not.
C4_WriteReadRoundTrip ==
    /\ (ret.op = "write" /\ Len(ret.arg[1]) = len(vb))
        => (pc = "ready" /\ vb.buffer.data = ret.arg[1])
    /\ ret.op = "read_if_supported"
        => /\ pc = "ready"
           /\ (~ctx.readback => ret.val = None)
           /\ (ctx.readback /\ IsSome(last_write) /\ last_write[1].via = "write")
                => ret.val = Some(last_write[1].data)

C4_Witness ==
    /\ ret.op = "read_if_supported"
    /\ IsSome(last_write)
    /\ last_write[1].via = "write"
    /\ Len(last_write[1].data) = MaxLen
    /\ ret.val = Some(last_write[1].data)
    /\ last_write[1].data[1] # last_write[1].data[MaxLen]

\* C5: a write of D, as long as the slice, through a slice (offset, length)
\* replaces the elements offset .. offset + length - 1 of the buffer by D and
\* leaves the others as they were, and a read through the same slice after
\* it returns D.
C5_SliceWriteFrame ==
    /\ [][ (ret'.op = "slice_write" /\ Len(ret'.arg[3]) = ret'.arg[2]) =>
            /\ pc' = "ready"
            /\ Len(vb'.buffer.data) = Len(vb.buffer.data)
            /\ \A i \in 1 .. Len(vb.buffer.data) :
                vb'.buffer.data[i] =
                    IF i > ret'.arg[1] /\ i <= ret'.arg[1] + ret'.arg[2]
                    THEN ret'.arg[3][i - ret'.arg[1]]
                    ELSE vb.buffer.data[i] ]_vars
    /\ []( ( /\ ret.op = "slice_read_if_supported"
             /\ ctx.readback
             /\ IsSome(last_write)
             /\ last_write[1].via = "slice_write"
             /\ last_write[1].offset = sl[1].offset
             /\ Len(last_write[1].data) = sl[1].length )
           => (pc = "ready" /\ ret.val = Some(last_write[1].data)) )

\* C6: after into_vertex_buffer_any and into_vertex_buffer, any number of
\* times, the buffer has the len, the bindings, the element size and the
\* storage it was built with.
C6_DegradeReinterpret ==
    ret.op = "into_vertex_buffer" =>
        /\ vb.marker \in ElementTypes
        /\ len(vb) = orig.len
        /\ get_bindings(vb) = orig.bindings
        /\ get_elements_size(vb) = orig.elements_size
        /\ get_id(vb) = orig.id

C6_Witness ==
    /\ ret.op = "into_vertex_buffer"
    /\ trips = MaxTrips
    /\ len(vb) = MaxLen
    /\ get_elements_size(vb) = 20
    /\ Len(get_bindings(vb)) = 2

\* C7: new_persistent_if_supported returns None, without panicking, when the
\* allocator answers that persistent mapping is not supported, returns the
\* buffer when the allocation succeeds, and panics only on another error.
C7_PersistentIfSupported ==
    ret.op = "new_persistent_if_supported" =>
        /\ (ret.alloc = "PersistentMappingNotSupported"
                => (ret.val = None /\ pc = "start" /\ vb = NoBuffer))
        /\ (ret.alloc = "Ok"
                => (ret.val = Some(vb) /\ pc = "ready" /\ vb.buffer.persistent))
        /\ (pc = "panicked"
                <=> ret.alloc \notin {"Ok", "PersistentMappingNotSupported"})

C7_Witness ==
    /\ ret.op = "new_persistent_if_supported"
    /\ ~ctx.persistent
    /\ ret.alloc = "PersistentMappingNotSupported"
    /\ ret.val = None
    /\ pc = "start"

\* C8: per_instance_if_supported returns None exactly when the version is
\* below 3.3 and the instanced-arrays extension is absent; otherwise its
\* marker covers the whole buffer; and it leaves the buffer as it was.
C8_PerInstance ==
    /\ [](ret.op = "per_instance_if_supported" =>
            /\ (ret.val = None <=>
                  /\ (ctx.version[1] < 3 \/ (ctx.version[1] = 3 /\ ctx.version[2] < 3))
                  /\ ~ctx.instanced)
            /\ (IsSome(ret.val) => ret.val[1] = [offset |-> 0, length |-> len(vb)]))
    /\ [][ret'.op = "per_instance_if_supported" => (vb' = vb /\ pc' = pc)]_vars

C8_Witness ==
    /\ ret.op = "per_instance_if_supported"
    /\ ctx.version = << 2, 1 >>
    /\ ctx.instanced
    /\ len(vb) = MaxLen
    /\ ret.val = Some([offset |-> 0, length |-> MaxLen])

\* C9: a map of a region returns only when every pending fence registered
\* through add_fence lies entirely before or entirely after the region, can
\* return exactly then, and then does: pending fences on disjoint regions do
\* not make it wait. VertexBuffer::map maps the whole range [0, len()), so
\* it waits on every pending fence of the buffer: it returns only when no
\* fence is pending, whether or not Senders are still unused.
C9_MapWaitsForFences ==
    /\ [][(pc = "map_wait" /\ pc' = "mapped") =>
            \A f \in fences :
                \/ f[1] + f[2] <= mapping[1][1]
                \/ mapping[1][1] + mapping[1][2] <= f[1]]_vars
    /\ [](pc = "map_wait" =>
            (ENABLED MapReturn <=>
                \A f \in fences :
                    \/ f[1] + f[2] <= mapping[1][1]
                    \/ mapping[1][1] + mapping[1][2] <= f[1]))
    /\ [](ret.op = "map" => mapping = Some(<< 0, len(vb) >>))
    /\ [][(ret.op = "map" /\ pc = "map_wait" /\ pc' = "mapped") => fences = {}]_vars
    /\ []((ret.op = "map" /\ pc = "map_wait") => (ENABLED MapReturn <=> fences = {}))
    /\ ((pc = "map_wait" /\ \A f \in fences :
                                \/ f[1] + f[2] <= mapping[1][1]
                                \/ mapping[1][1] + mapping[1][2] <= f[1])
            ~> pc = "mapped")

\* VertexBuffer::map of a full buffer waits on a pending fence while a Sender
\* is still unused.
C9_Witness ==
    /\ pc = "map_wait"
    /\ ret.op = "map"
    /\ len(vb) = MaxLen
    /\ fences # {}
    /\ senders > 0
    /\ ~ENABLED MapReturn

\* C10: new and new_dynamic build the same buffer and pass different usage
\* hints to the allocator.
C10_UsageHintsDiffer ==
    /\ ret.op = "new" => ret.flags = BufferFlagsSimple
    /\ ret.op = "new_dynamic" => ret.flags # BufferFlagsSimple
====
